---- MODULE Spec2Model ----
(***************************************************************************)
(* Model of data/crypto/get_daily_price_crypto.py: the reshaper            *)
(* convert_crypto_to_standard_format, the fetcher get_crypto_daily_price   *)
(* and the batch driver get_all_crypto_prices.                             *)
(*                                                                         *)
(* Python values are tagged records: None, Str(s), Dict(m) with m a        *)
(* function from keys to values, and List for a JSON value that is not an  *)
(* object.  A raised exception is the value Raise(e).                      *)
(***************************************************************************)
EXTENDS Integers, Sequences, FiniteSets, TLC

VARIABLES symbols_list, delay_seconds, APIKEY, i, successful, failed, pc,
          result, response, outcome, coin_dir, files, events

vars == <<symbols_list, delay_seconds, APIKEY, i, successful, failed, pc,
          result, response, outcome, coin_dir, files, events>>

\* ------------------------------------------------------------------ bounds
MaxSymbols == 3
MaxDates == 2

\* --------------------------------------------------------- Python values
None == [t |-> "None"]
Str(s) == [t |-> "str", s |-> s]
Dict(m) == [t |-> "dict", m |-> m]
List == [t |-> "list"]
Raise(e) == [t |-> "raise", e |-> e]
EmptyMap == [k \in {} |-> None]

\* Python truth value of an object: None, "" and {} are false.
Truthy(v) ==
    CASE v.t = "None" -> FALSE
      [] v.t = "str"  -> v.s # ""
      [] v.t = "dict" -> DOMAIN v.m # {}
      [] OTHER        -> TRUE

\* obj.get(key, default); an object that is no dict has no .get
dict_get(obj, key, default) ==
    IF obj.t # "dict" THEN Raise("AttributeError")
    ELSE IF key \in DOMAIN obj.m THEN obj.m[key] ELSE default

\* ------------------------------------------------------------- constants
SeriesKey == "Time Series (Digital Currency Daily)"
OHLCV == {"1. open", "2. high", "3. low", "4. close", "5. volume"}
Symbols == {"BTC", "ETH"}
Delays == {0, 12}

\* ------------------------------------------------------------- reshaper
\* Mutant: the entry is copied whole and only the missing fields defaulted.
standard_entry_copying_all(values) ==
    Dict([f \in OHLCV \cup DOMAIN values.m |-> dict_get(values, f, Str("0"))])

\* One per-date entry of the output (lines 46-52).
standard_entry(values) ==
    Dict([f \in OHLCV |-> dict_get(values, f, Str("0"))])

standard_meta(metadata, symbol) ==
    Dict(("1. Information" :> dict_get(metadata, "1. Information",
                 Str("Daily Prices (open, high, low, close) and Volumes")))
      @@ ("2. Symbol" :> Str(symbol))
      @@ ("3. Last Refreshed" :> dict_get(metadata, "6. Last Refreshed", None))
      @@ ("4. Output Size" :> Str("Compact"))
      @@ ("5. Time Zone" :> dict_get(metadata, "7. Time Zone", Str("UTC"))))

\* Mutant: a date whose entry is empty is skipped (if values: ...).
convert_skipping_empty_entries(d, symbol) ==
    LET metadata == dict_get(d, "Meta Data", Dict(EmptyMap))
        time_series == dict_get(d, SeriesKey, Dict(EmptyMap))
    IN  IF d.t # "dict" \/ metadata.t # "dict" \/ time_series.t # "dict"
        THEN Raise("AttributeError")
        ELSE IF \E date \in DOMAIN time_series.m : time_series.m[date].t # "dict"
        THEN Raise("AttributeError")
        ELSE Dict(("Meta Data" :> standard_meta(metadata, symbol))
               @@ ("Time Series (Daily)" :>
                     Dict([date \in { x \in DOMAIN time_series.m :
                                        Truthy(time_series.m[x]) } |->
                              standard_entry(time_series.m[date])])))

convert_crypto_to_standard_format(d, symbol) ==
    LET metadata == dict_get(d, "Meta Data", Dict(EmptyMap))
        time_series == dict_get(d, SeriesKey, Dict(EmptyMap))
    IN  IF d.t # "dict" \/ metadata.t # "dict" \/ time_series.t # "dict"
        THEN Raise("AttributeError")
        ELSE IF \E date \in DOMAIN time_series.m : time_series.m[date].t # "dict"
        THEN Raise("AttributeError")
        ELSE Dict(("Meta Data" :> standard_meta(metadata, symbol))
               @@ ("Time Series (Daily)" :>
                     Dict([date \in DOMAIN time_series.m |->
                              standard_entry(time_series.m[date])])))

\* -------------------------------------------------------------- fetcher
\* Exception classes: what the first two except clauses match.
IsRequestException(e) == e \in {"ConnectionError", "requests.JSONDecodeError"}
IsJSONDecodeError(e) == e \in {"requests.JSONDecodeError", "json.JSONDecodeError"}

\* The file system under the script's directory.
Absent == [t |-> "absent"]
Partial == [t |-> "partial"]
Json(v) == [t |-> "json", v |-> v]

\* Mutant: only an unset key is refused (if APIKEY is None).
KeyMissing_only_unset(key) == key = None

\* if not APIKEY (line 69)
KeyMissing(key) == ~Truthy(key)

\* Mutant: the Information field is not looked at.
IsApiError_note_only(d) == dict_get(d, "Note", None) # None

\* data.get("Note") is not None or data.get("Information") is not None (line 84)
IsApiError(d) ==
    \/ dict_get(d, "Note", None) # None
    \/ dict_get(d, "Information", None) # None

\* The writer (lines 99-104): makedirs, open(filename, "w"), json.dump.
\* w names the step the environment makes fail, "ok" when none does.
write_file(fs, symbol, standard_data, w) ==
    CASE w = "makedirs" -> [fs EXCEPT !.ret = Raise("OSError")]
      [] w = "open"     -> [fs EXCEPT !.ret = Raise("OSError"), !.dir = TRUE]
      [] w = "dump"     -> [fs EXCEPT !.ret = Raise("UnicodeEncodeError"), !.dir = TRUE,
                                      !.opened = TRUE, !.files[symbol] = Partial]
      [] OTHER          -> [fs EXCEPT !.ret = standard_data, !.dir = TRUE,
                                      !.opened = TRUE,
                                      !.files[symbol] = Json(standard_data)]

\* Mutant: the series key is not checked before the conversion.
try_block_no_series_check(fs, symbol, resp, w) ==
    IF resp.k = "exc" THEN [fs EXCEPT !.ret = Raise(resp.e)]
    ELSE IF resp.v.t # "dict" THEN [fs EXCEPT !.ret = Raise("AttributeError")]
    ELSE IF IsApiError(resp.v) THEN [fs EXCEPT !.ret = None, !.outcome = "RATE_LIMITED"]
    ELSE LET standard_data == convert_crypto_to_standard_format(resp.v, symbol)
         IN  IF standard_data.t = "raise" THEN [fs EXCEPT !.ret = standard_data]
             ELSE [write_file(fs, symbol, standard_data, w) EXCEPT !.outcome = "SUCCESS"]

\* The try block (lines 79-107) once requests.get has returned or raised.
try_block(fs, symbol, resp, w) ==
    IF resp.k = "exc" THEN [fs EXCEPT !.ret = Raise(resp.e)]
    ELSE IF resp.v.t # "dict" THEN [fs EXCEPT !.ret = Raise("AttributeError")]
    ELSE IF IsApiError(resp.v) THEN [fs EXCEPT !.ret = None, !.outcome = "RATE_LIMITED"]
    ELSE IF SeriesKey \notin DOMAIN resp.v.m
         THEN [fs EXCEPT !.ret = None, !.outcome = "NO_DATA"]
    ELSE LET standard_data == convert_crypto_to_standard_format(resp.v, symbol)
         IN  IF standard_data.t = "raise" THEN [fs EXCEPT !.ret = standard_data]
             ELSE [write_file(fs, symbol, standard_data, w) EXCEPT !.outcome = "SUCCESS"]

\* Mutant: there is no last except clause.
except_clauses_no_catch_all(st) ==
    IF st.ret.t # "raise" THEN st
    ELSE IF IsRequestException(st.ret.e)
         THEN [st EXCEPT !.ret = None, !.outcome = "NETWORK_ERROR"]
    ELSE IF IsJSONDecodeError(st.ret.e)
         THEN [st EXCEPT !.ret = None, !.outcome = "PARSE_ERROR"]
    ELSE st

\* The except clauses (lines 109-117), in order.
except_clauses(st) ==
    IF st.ret.t # "raise" THEN st
    ELSE IF IsRequestException(st.ret.e)
         THEN [st EXCEPT !.ret = None, !.outcome = "NETWORK_ERROR"]
    ELSE IF IsJSONDecodeError(st.ret.e)
         THEN [st EXCEPT !.ret = None, !.outcome = "PARSE_ERROR"]
    ELSE [st EXCEPT !.ret = None, !.outcome = "UNEXPECTED_ERROR"]

\* get_crypto_daily_price from the return of requests.get to its own return.
get_crypto_daily_price(fs, symbol, resp, w) ==
    except_clauses(try_block(fs, symbol, resp, w))

\* --------------------------------------------------- what the provider sends
Date(n) == IF n = 1 THEN "2024-01-01" ELSE IF n = 2 THEN "2024-01-02"
           ELSE IF n = 3 THEN "2024-01-03" ELSE "2024-01-04"
FullEntry == Dict([f \in OHLCV \cup {"6. market cap (USD)"} |-> Str("42000.5")])
SeriesChoices ==
    { Dict(EmptyMap), Dict(Date(1) :> FullEntry), Dict(Date(1) :> List), None }
NoteChoices == { None, Str("rate limit reached") }

\* A JSON object: each of Note, Information and the series absent or present.
JsonObject(note, info, series) ==
    Dict([k \in (IF note = Absent THEN {} ELSE {"Note"})
            \cup (IF info = Absent THEN {} ELSE {"Information"})
            \cup (IF series = Absent THEN {} ELSE {SeriesKey}) |->
          IF k = "Note" THEN note ELSE IF k = "Information" THEN info ELSE series])

Responses ==
    { [k |-> "exc", e |-> e] :
        e \in {"ConnectionError", "requests.JSONDecodeError", "json.JSONDecodeError"} }
    \cup { [k |-> "json", v |-> List] }
    \cup { [k |-> "json", v |-> JsonObject(n, f, s)] :
             n \in NoteChoices \cup {Absent},
             f \in NoteChoices \cup {Absent},
             s \in SeriesChoices \cup {Absent} }

WriteOutcomes == {"ok", "makedirs", "open", "dump"}

\* ---------------------------------------------------------- batch driver
\* What the run has done so far: calls of get_crypto_daily_price, HTTP requests,
\* files opened for writing, returns (record or none), sleeps, the summary.
Event(e) == [e |-> e, pos |-> i]
EventAt(e, p) == [e |-> e, pos |-> p]
EventIndexes(e) == { k \in 1..Len(events) : events[k].e = e }
EventsOf(e) == SelectSeq(events, LAMBDA ev : ev.e = e)
CountOf(e, p) == Cardinality({ k \in EventIndexes(e) : events[k].pos = p })

SymbolLists == UNION { [1..n -> Symbols] : n \in 0..MaxSymbols }

Init ==
    /\ symbols_list \in SymbolLists
    /\ delay_seconds \in Delays
    /\ APIKEY \in {None, Str(""), Str("demo")}
    /\ i = 0
    /\ successful = 0
    /\ failed = 0
    /\ pc = "loop"
    /\ result = None
    /\ response = None
    /\ outcome = "-"
    /\ coin_dir \in BOOLEAN
    /\ files = [s \in Symbols |-> Absent]
    /\ events = <<>>

\* Lines 137-80: the next symbol is taken and get_crypto_daily_price is called;
\* it returns None at once without a key, and else issues the HTTP request.
NextSymbol ==
    /\ pc = "loop"
    /\ i < Len(symbols_list)
    /\ i' = i + 1
    /\ IF KeyMissing(APIKEY)
       THEN /\ pc' = "returned"
            /\ result' = None
            /\ outcome' = "CONFIG_ERROR"
            /\ events' = events \o <<EventAt("call", i + 1), EventAt("none", i + 1)>>
       ELSE /\ pc' = "requesting"
            /\ outcome' = "REQUESTING"
            /\ events' = events \o <<EventAt("call", i + 1), EventAt("http", i + 1)>>
            /\ UNCHANGED result
    /\ UNCHANGED <<symbols_list, delay_seconds, APIKEY, successful, failed,
                   response, coin_dir, files>>

\* Lines 80-117: requests.get returns or raises and the call runs to its return.
Respond ==
    /\ pc = "requesting"
    /\ \E resp \in Responses, w \in WriteOutcomes :
         /\ w = "makedirs" => ~coin_dir
         /\ LET st == get_crypto_daily_price(
                        [ret |-> None, outcome |-> "-", dir |-> coin_dir,
                         files |-> files, opened |-> FALSE],
                        symbols_list[i], resp, w)
            IN  /\ response' = resp
                /\ result' = st.ret
                /\ outcome' = st.outcome
                /\ coin_dir' = st.dir
                /\ files' = st.files
                /\ pc' = IF st.ret.t = "raise" THEN "raised" ELSE "returned"
                /\ events' = events
                     \o (IF st.opened THEN <<Event("open")>> ELSE <<>>)
                     \o <<Event(IF st.ret.t = "dict" THEN "record"
                                ELSE IF st.ret.t = "raise" THEN "raise" ELSE "none")>>
    /\ UNCHANGED <<symbols_list, delay_seconds, APIKEY, i, successful, failed>>

\* Mutant: a record counts only when its series is not empty.
CountsAsSuccess_nonempty_series(res) ==
    res.t = "dict" /\ DOMAIN res.m["Time Series (Daily)"].m # {}

\* if result (line 142)
CountsAsSuccess(res) == Truthy(res)

\* Mutant: the delay follows every symbol (i <= len(symbols_list)).
DelayNeeded_every_symbol(pos, n) == pos <= n

\* if i < len(symbols_list) (line 148)
DelayNeeded(pos, n) == pos < n

\* Lines 142-150: the result is counted and the delay, if any, starts.
CountBody ==
    /\ IF CountsAsSuccess(result)
       THEN successful' = successful + 1 /\ UNCHANGED failed
       ELSE failed' = failed + 1 /\ UNCHANGED successful
    /\ IF DelayNeeded(i, Len(symbols_list))
       THEN pc' = "sleeping" /\ events' = Append(events, Event("sleep"))
       ELSE pc' = "loop" /\ UNCHANGED events
    /\ result' = None
    /\ response' = None
    /\ outcome' = "DONE"
    /\ UNCHANGED <<symbols_list, delay_seconds, APIKEY, i, coin_dir, files>>

\* Mutant: a failed request is issued again before the result is counted.
Count_retrying_failures ==
    /\ pc = "returned"
    /\ IF result = None /\ outcome # "CONFIG_ERROR" /\ CountOf("http", i) < 2
       THEN /\ pc' = "requesting"
            /\ outcome' = "REQUESTING"
            /\ events' = Append(events, Event("http"))
            /\ UNCHANGED <<symbols_list, delay_seconds, APIKEY, i, successful,
                           failed, result, response, coin_dir, files>>
       ELSE CountBody

Count ==
    /\ pc = "returned"
    /\ CountBody

\* time.sleep(delay_seconds) returns (line 150).
Wake ==
    /\ pc = "sleeping"
    /\ pc' = "loop"
    /\ UNCHANGED <<symbols_list, delay_seconds, APIKEY, i, successful, failed,
                   result, response, outcome, coin_dir, files, events>>

\* Lines 152-155: the loop is over and the summary is printed.
Summary ==
    /\ pc = "loop"
    /\ i >= Len(symbols_list)
    /\ pc' = "done"
    /\ events' = Append(events, Event("summary"))
    /\ UNCHANGED <<symbols_list, delay_seconds, APIKEY, i, successful, failed,
                   result, response, outcome, coin_dir, files>>

Next == NextSymbol \/ Respond \/ Count \/ Wake \/ Summary

Spec == Init /\ [][Next]_vars

\* The HTTP call and the sleep return, and the thread runs on.
FairSpec == Spec /\ WF_vars(Next)

\* ------------------------------------------------ the reshaper on its own
RawFields == OHLCV \cup {"6. market cap (USD)"}
FieldValue(f) ==
    CASE f = "1. open"   -> Str("42000.1")
      [] f = "2. high"   -> Str("42000.2")
      [] f = "3. low"    -> Str("42000.3")
      [] f = "4. close"  -> Str("42000.4")
      [] f = "5. volume" -> Str("0.5")
      [] OTHER           -> Str("830000000000")

\* Per-date entries: at most one field present, or at most one field absent;
\* an entry of JSON nulls; an entry that is no object.
RawEntries ==
    { Dict([f \in S |-> FieldValue(f)]) :
        S \in { T \in SUBSET RawFields :
                  Cardinality(T) <= 1 \/ Cardinality(RawFields \ T) <= 1 } }
    \cup { Dict([f \in RawFields |-> None]), List }

RawSeries ==
    { Dict(m) : m \in UNION { [D -> RawEntries] :
                   D \in SUBSET { Date(n) : n \in 1..MaxDates } } }
    \cup { None, Absent }

RawMeta ==
    { Absent, List, Dict(EmptyMap),
      Dict(("1. Information" :> Str("Daily Prices and Volumes for Digital Currency"))
        @@ ("6. Last Refreshed" :> Str("2024-01-02 00:00:00"))
        @@ ("7. Time Zone" :> Str("UTC"))) }

RawPayload(meta, series) ==
    Dict([k \in (IF meta = Absent THEN {} ELSE {"Meta Data"})
            \cup (IF series = Absent THEN {} ELSE {SeriesKey}) |->
          IF k = "Meta Data" THEN meta ELSE series])

InitConvert ==
    /\ response \in { [k |-> "json", v |-> RawPayload(m, ts)] :
                        m \in RawMeta, ts \in RawSeries }
    /\ symbols_list \in [1..1 -> Symbols]
    /\ i = 1
    /\ pc = "convert"
    /\ result = None
    /\ delay_seconds = 0
    /\ APIKEY = Str("demo")
    /\ successful = 0
    /\ failed = 0
    /\ outcome = "-"
    /\ coin_dir = FALSE
    /\ files = [s \in Symbols |-> Absent]
    /\ events = <<>>

\* convert_crypto_to_standard_format(data, symbol) is applied to the payload.
Convert ==
    /\ pc = "convert"
    /\ result' = convert_crypto_to_standard_format(response.v, symbols_list[i])
    /\ pc' = "converted"
    /\ UNCHANGED <<symbols_list, delay_seconds, APIKEY, i, successful, failed,
                   response, outcome, coin_dir, files, events>>

ConvertSpec == InitConvert /\ [][Convert]_vars

\* ---------------------------------------------------------------- claims
N == Len(symbols_list)
Positions == 1..N
ReturnedRecord == { p \in Positions : CountOf("record", p) > 0 }
ReturnedNone == { p \in Positions : CountOf("none", p) > 0 }
\* The positions whose result has been counted.
Processed == IF pc \in {"requesting", "returned", "raised"} THEN i - 1 ELSE i
FilesPresent == { s \in Symbols : files[s] # Absent }
IsJsonObject(resp) == resp # None /\ resp.k = "json" /\ resp.v.t = "dict"
HasKey(resp, key) == IsJsonObject(resp) /\ key \in DOMAIN resp.v.m
HasValue(resp, key) == HasKey(resp, key) /\ resp.v.m[key] # None

\* C1: every list position is processed exactly once and in list order, with
\* one call of get_crypto_daily_price and at most one HTTP request each,
\* whatever the outcomes, and the run reaches the summary after the last one.
C1_EveryPositionOnceThenSummary ==
    /\ [](/\ EventsOf("call") = [k \in 1..i |-> [e |-> "call", pos |-> k]]
          /\ \A p \in Positions : CountOf("http", p) <= 1
          /\ pc # "raised")
    /\ <>(/\ pc = "done"
          /\ i = N
          /\ EventsOf("call") = [k \in 1..N |-> [e |-> "call", pos |-> k]]
          /\ ReturnedRecord \cup ReturnedNone = Positions)

\* C1 witness: a run of three symbols is over, the first symbol failed and
\* a later one succeeded.
C1_Witness ==
    /\ pc = "done"
    /\ N = 3
    /\ 1 \in ReturnedNone
    /\ 3 \in ReturnedRecord

\* C2: successful + failed is the number of symbols processed so far,
\* successful counts the calls that returned a record and failed those that
\* returned None; a record with an empty series counts as successful.
C2_CountersMatchResults ==
    /\ successful + failed = Processed
    /\ successful = Cardinality({ p \in ReturnedRecord : p <= Processed })
    /\ failed = Cardinality({ p \in ReturnedNone : p <= Processed })
    /\ pc = "done" => /\ successful = Cardinality(ReturnedRecord)
                      /\ failed = Cardinality(ReturnedNone)
                      /\ successful + failed = N

\* C2 witness: the only symbol of the run gave a record whose series is
\* empty, and the summary counts it as successful.
C2_Witness ==
    /\ pc = "done"
    /\ N = 1
    /\ successful = 1
    /\ \E s \in Symbols :
         /\ files[s].t = "json"
         /\ DOMAIN files[s].v.m["Time Series (Daily)"].m = {}

\* C3: exactly one delay lies between the calls of two consecutive symbols,
\* none follows the last symbol, and a whole run has max(0, n-1) delays.
C3_DelayBetweenConsecutiveSymbols ==
    /\ \A a, b \in EventIndexes("call") :
         (events[b].pos = events[a].pos + 1) =>
            Cardinality({ k \in EventIndexes("sleep") : a < k /\ k < b }) = 1
    /\ \A k \in EventIndexes("sleep") : events[k].pos < N
    /\ \A p \in Positions : CountOf("sleep", p) <= 1
    /\ pc = "done" =>
         Cardinality(EventIndexes("sleep")) = (IF N = 0 THEN 0 ELSE N - 1)

\* C3 witness: a run of three symbols is over with two delays, one of them
\* after a symbol that failed.
C3_Witness ==
    /\ pc = "done"
    /\ N = 3
    /\ Cardinality(EventIndexes("sleep")) = 2
    /\ 1 \in ReturnedNone
    /\ 2 \in ReturnedRecord

\* C4: with the API key absent or empty, a call returns None, no HTTP
\* request is issued, the directory is not created and no file is written.
C4_NoKeyNoRequest ==
    /\ []((APIKEY \in {None, Str("")}) =>
            /\ EventIndexes("http") = {}
            /\ EventIndexes("open") = {}
            /\ pc \notin {"requesting", "raised"}
            /\ pc = "returned" => result = None)
    /\ [][(APIKEY \in {None, Str("")}) =>
            (files' = files /\ coin_dir' = coin_dir)]_vars

\* C4 witness: the key is the empty string and a call has returned None.
C4_Witness ==
    /\ APIKEY = Str("")
    /\ pc = "returned"
    /\ result = None
    /\ ~coin_dir

\* C5 as stated: a response holding a Note or Information field, whatever
\* its value, makes the call return None and write no file.
C5_AnyNoteOrInformationFails ==
    (pc = "returned" /\ (HasKey(response, "Note") \/ HasKey(response, "Information")))
        => (result = None /\ CountOf("open", i) = 0)

\* C5 amended: a response holding a Note or Information field whose value is
\* not null makes the call return None and write no file, with or without
\* the series key.
C5_NonNullNoteOrInformationFails ==
    (pc = "returned" /\ (HasValue(response, "Note") \/ HasValue(response, "Information")))
        => (result = None /\ CountOf("open", i) = 0 /\ outcome = "RATE_LIMITED")

\* C5 witness: a response with an Information text and the series key was
\* answered with None.
C5_Witness ==
    /\ pc = "returned"
    /\ HasValue(response, "Information")
    /\ ~HasKey(response, "Note")
    /\ HasKey(response, SeriesKey)
    /\ result = None

\* C6: get_crypto_daily_price never raises: it returns a record or None, and
\* a record only for a response that holds the series key.
C6_NeverRaisesRecordNeedsSeries ==
    /\ pc # "raised"
    /\ pc = "returned" =>
         /\ result.t \in {"dict", "None"}
         /\ result.t = "dict" => HasKey(response, SeriesKey)
         /\ ~HasKey(response, SeriesKey) => result = None

\* C6 witness: a response whose per-date entry is no object was answered
\* with None by the last except clause.
C6_Witness ==
    /\ pc = "returned"
    /\ outcome = "UNEXPECTED_ERROR"
    /\ HasKey(response, SeriesKey)
    /\ result = None

\* C7: after a run that began with an empty directory, the files that exist
\* are exactly those of the symbols whose call returned a record.
C7_FilesAreExactlyTheSuccessful ==
    pc = "done" => FilesPresent = { symbols_list[p] : p \in ReturnedRecord }

\* C8: the date keys of the output series are exactly the date keys of the
\* input series (an absent series gives an empty one).
InputSeries(d) == IF SeriesKey \in DOMAIN d.m THEN d.m[SeriesKey].m ELSE EmptyMap
C8_SameDates ==
    (pc = "converted" /\ result.t = "dict") =>
        DOMAIN result.m["Time Series (Daily)"].m = DOMAIN InputSeries(response.v)

\* C8 witness: a payload with two dates was converted.
C8_Witness ==
    /\ pc = "converted"
    /\ result.t = "dict"
    /\ Cardinality(DOMAIN InputSeries(response.v)) = 2
    /\ \E date \in DOMAIN InputSeries(response.v) :
         DOMAIN InputSeries(response.v)[date].m = {}

\* C9: every output entry has exactly the five OHLCV fields, each the input
\* value of that field when present and "0" when absent.
C9_FiveFieldsDefaultZero ==
    (pc = "converted" /\ result.t = "dict") =>
        \A date \in DOMAIN InputSeries(response.v) :
            LET inp == InputSeries(response.v)[date].m
                out == result.m["Time Series (Daily)"].m[date]
            IN  /\ out.t = "dict"
                /\ DOMAIN out.m = OHLCV
                /\ \A f \in OHLCV :
                     out.m[f] = IF f \in DOMAIN inp THEN inp[f] ELSE Str("0")

\* C9 witness: an entry with the market-cap field and without the volume
\* field was converted.
C9_Witness ==
    /\ pc = "converted"
    /\ result.t = "dict"
    /\ \E date \in DOMAIN InputSeries(response.v) :
         /\ "6. market cap (USD)" \in DOMAIN InputSeries(response.v)[date].m
         /\ "5. volume" \notin DOMAIN InputSeries(response.v)[date].m
         /\ "1. open" \in DOMAIN InputSeries(response.v)[date].m

\* The state of the symbol at position p.
Status(p) == IF p > i THEN "PENDING" ELSE IF p < i THEN "DONE" ELSE outcome
FiveOutcomes == {"SUCCESS", "RATE_LIMITED", "NO_DATA", "NETWORK_ERROR", "PARSE_ERROR"}
ClaimedLifecycle ==
    { <<"PENDING", "REQUESTING">> }
    \cup { <<"REQUESTING", o>> : o \in FiveOutcomes }
    \cup { <<o, "DONE">> : o \in FiveOutcomes }
ActualLifecycle ==
    ClaimedLifecycle
    \cup { <<"PENDING", "CONFIG_ERROR">>, <<"CONFIG_ERROR", "DONE">>,
           <<"REQUESTING", "UNEXPECTED_ERROR">>, <<"UNEXPECTED_ERROR", "DONE">> }

\* C10 as stated: every symbol goes PENDING -> REQUESTING -> one of the five
\* outcomes -> DONE.
C10_ClaimedLifecycle ==
    [][\A p \in Positions :
         Status(p)' # Status(p) => <<Status(p), Status(p)'>> \in ClaimedLifecycle]_vars

\* C10 amended: every symbol goes PENDING -> REQUESTING -> one of SUCCESS,
\* RATE_LIMITED, NO_DATA, NETWORK_ERROR, PARSE_ERROR, UNEXPECTED_ERROR -> DONE,
\* or without a key PENDING -> CONFIG_ERROR -> DONE; it never leaves DONE nor
\* returns to REQUESTING, at most one symbol is REQUESTING, each symbol gets at
\* most one HTTP request, and all symbols before a REQUESTING one are DONE.
C10_Lifecycle ==
    /\ [][\A p \in Positions :
            Status(p)' # Status(p) => <<Status(p), Status(p)'>> \in ActualLifecycle]_vars
    /\ [](/\ Cardinality({ p \in Positions : Status(p) = "REQUESTING" }) <= 1
          /\ \A p \in Positions : CountOf("http", p) <= 1
          /\ \A p \in Positions : Status(p) = "PENDING" => CountOf("http", p) = 0
          /\ \A p, q \in Positions :
               (Status(p) = "REQUESTING" /\ q < p) => Status(q) = "DONE")

\* C10 witness: the second symbol is being requested and the first is done.
C10_Witness ==
    /\ N >= 2
    /\ Status(2) = "REQUESTING"
    /\ Status(1) = "DONE"

====
